---- MODULE Spec2Model ----
(***************************************************************************)
(* Multi-agent orchestration core of biasbouncer (src/streamlit_app.py and *)
(* src/biasbouncer/tools): perspective derivation, the per-perspective     *)
(* response generation with its single tool call, the fan-out/fan-in round *)
(* and the sidebar chat handler that appends to the transcript.            *)
(*                                                                         *)
(* A text (a Python str) is a sequence of symbols.  A symbol is a string   *)
(* that stands for a fixed piece of text: a single character (",", " ",    *)
(* "\n", "a"), a fence ("~~~" stands for the three backticks), one member  *)
(* of a JSON object ("tool=read") or a fixed message of the program.       *)
(***************************************************************************)
EXTENDS Integers, Sequences, FiniteSets, TLC

\* ---------------------------------------------------------------- bounds
\* longest raw answer of the perspective model that DeriveSpec enumerates
MaxAnswerLen == 5
\* largest requested count that DeriveSpec enumerates
MaxCount == 3

\* longest wait for an answer of the web search that is followed, in periods
\* of 10 s
MaxWait == 2

\* ---------------------------------------------------------------- texts
Whitespace == {" ", "\n"}

RECURSIVE LStrip(_)
LStrip(s) ==
    IF s # <<>> /\ Head(s) \in Whitespace THEN LStrip(Tail(s)) ELSE s

RECURSIVE RStrip(_)
RStrip(s) ==
    IF s # <<>> /\ s[Len(s)] \in Whitespace
    THEN RStrip(SubSeq(s, 1, Len(s) - 1))
    ELSE s

\* str.strip(): leading and trailing whitespace removed
Strip(s) == RStrip(LStrip(s))

\* str.split(sep): the pieces between the separators, at least one piece
RECURSIVE Split(_, _)
Split(s, sep) ==
    IF \E i \in 1..Len(s) : s[i] = sep
    THEN LET i == CHOOSE k \in 1..Len(s) :
                      s[k] = sep /\ \A j \in 1..(k - 1) : s[j] # sep
         IN  <<SubSeq(s, 1, i - 1)>> \o Split(SubSeq(s, i + 1, Len(s)), sep)
    ELSE <<s>>

\* Python slice list[:n] for n >= 0
Take(list, n) == SubSeq(list, 1, IF n < Len(list) THEN n ELSE Len(list))

\* [item.strip() for item in items if item.strip()]
RECURSIVE StripNonEmpty(_)
StripNonEmpty(items) ==
    IF items = <<>> THEN <<>>
    ELSE IF Strip(Head(items)) # <<>>
         THEN <<Strip(Head(items))>> \o StripNonEmpty(Tail(items))
         ELSE StripNonEmpty(Tail(items))

\* sep.join(parts)
RECURSIVE Join(_, _)
Join(parts, sep) ==
    IF parts = <<>> THEN <<>>
    ELSE IF Len(parts) = 1 THEN parts[1]
    ELSE parts[1] \o sep \o Join(Tail(parts), sep)

\* ------------------------------------------------- perspective derivation
\* a plausible slip: truncating to the count before the empty items are dropped
determine_companies_truncate_first(response, n) ==
    StripNonEmpty(Take(Split(response, ","), n))

\* determine_companies, after the model has answered response
determine_companies(response, n) ==
    Take(StripNonEmpty(Split(response, ",")), n)

\* ------------------------------------------------------ tool-call blocks
\* a newline before an opening fence also ends a block: the opening fence
\* begins with the three backticks of the closing fence
Backticks == {"~~~", "~~~json"}

\* re.search(<fence>json\n(.*?)\n<fence>, response, re.DOTALL): the opening
\* fences that are followed by a closing fence
MatchStarts(response) ==
    {i \in 1..Len(response) :
        /\ i + 1 <= Len(response)
        /\ response[i] = "~~~json"
        /\ response[i + 1] = "\n"
        /\ \E j \in (i + 2)..(Len(response) - 1) :
              response[j] = "\n" /\ response[j + 1] \in Backticks}

json_match(response) == MatchStarts(response) # {}

\* json_match.group(1): leftmost opening fence, shortest body (non-greedy)
MatchGroup(response) ==
    LET i == CHOOSE k \in MatchStarts(response) :
                 \A m \in MatchStarts(response) : k <= m
        j == CHOOSE k \in (i + 2)..(Len(response) - 1) :
                 /\ response[k] = "\n" /\ response[k + 1] \in Backticks
                 /\ \A m \in (i + 2)..(k - 1) :
                       ~(response[m] = "\n" /\ response[m + 1] \in Backticks)
    IN  SubSeq(response, i + 2, j - 1)

\* the members of a JSON object that the model's answers are built from; a
\* member symbol stands for "key": "value"
Members ==
    {"tool=read", "tool=write", "tool=research", "tool=scrape_webpage",
     "tool=delete", "filename=f.txt", "filename=f.md", "filename=f.csv",
     "filename=f.docx", "filename=f.exe", "content=x", "content=y",
     "content=a,b/c,d", "query=q", "url=u"}

Key(m) ==
    CASE m \in {"tool=read", "tool=write", "tool=research",
                "tool=scrape_webpage", "tool=delete"} -> "tool"
      [] m \in {"filename=f.txt", "filename=f.md", "filename=f.csv",
                "filename=f.docx", "filename=f.exe"} -> "filename"
      [] m \in {"content=x", "content=y", "content=a,b/c,d"} -> "content"
      [] m = "query=q" -> "query"
      [] m = "url=u" -> "url"

Val(m) ==
    CASE m = "tool=read" -> <<"read">>
      [] m = "tool=write" -> <<"write">>
      [] m = "tool=research" -> <<"research">>
      [] m = "tool=scrape_webpage" -> <<"scrape_webpage">>
      [] m = "tool=delete" -> <<"delete">>
      [] m = "filename=f.txt" -> <<"f.txt">>
      [] m = "filename=f.md" -> <<"f.md">>
      [] m = "filename=f.csv" -> <<"f.csv">>
      [] m = "filename=f.docx" -> <<"f.docx">>
      [] m = "filename=f.exe" -> <<"f.exe">>
      [] m = "content=x" -> <<"x">>
      [] m = "content=y" -> <<"y">>
      \* two lines of two comma-separated cells
      [] m = "content=a,b/c,d" -> <<"a", ",", "b", "\n", "c", ",", "d">>
      [] m = "query=q" -> <<"q">>
      [] m = "url=u" -> <<"u">>

NotWhitespace(c) == c \notin Whitespace

NoObject == [k \in {} |-> <<>>]

\* json.loads(text): an object (a dict; of a repeated key the last member
\* counts), another JSON value (a list, a number) or json.JSONDecodeError
JsonLoads(text) ==
    LET b == SelectSeq(text, NotWhitespace)
        n == Len(b)
    IN  IF n >= 2 /\ b[1] = "{" /\ b[n] = "}"
           /\ \A i \in 2..(n - 1) : b[i] \in Members
        THEN [kind |-> "object",
              obj |-> [k \in {Key(b[i]) : i \in 2..(n - 1)} |->
                          LET last == CHOOSE i \in 2..(n - 1) :
                                  /\ Key(b[i]) = k
                                  /\ \A j \in (i + 1)..(n - 1) : Key(b[j]) # k
                          IN  Val(b[last])]]
        ELSE IF b = <<"[", "]">> \/ b = <<"7">>
        THEN [kind |-> "value", obj |-> NoObject]
        ELSE [kind |-> "JSONDecodeError", obj |-> NoObject]

\* tool_data[key] of a dict raises KeyError when the key is missing
Has(obj, key) == key \in DOMAIN obj

\* a plausible slip: the fields read with dict.get, a call that lacks one
\* skipped
BranchLenient(tool_data) ==
    IF tool_data.kind = "value" THEN "TypeError"
    ELSE LET obj == tool_data.obj IN
         IF ~Has(obj, "tool") THEN "None"
         ELSE CASE obj["tool"] = <<"read">> /\ Has(obj, "filename") -> "read"
                [] /\ obj["tool"] = <<"write">>
                   /\ Has(obj, "filename") /\ Has(obj, "content") -> "write"
                [] obj["tool"] = <<"research">> /\ Has(obj, "query") -> "research"
                [] obj["tool"] = <<"scrape_webpage">> /\ Has(obj, "url") ->
                     "scrape_webpage"
                [] OTHER -> "None"

\* the branch of handle_tool_request that a parsed block takes, or the
\* exception its subscripts raise before a tool is called:
\*   "read" "write" "research" "scrape_webpage"  the tool is called
\*   "None"       no branch matches, handle_tool_request returns None
\*   "KeyError"   a subscripted key is missing
\*   "TypeError"  tool_data is no dict (TypeError is not caught)
Branch(tool_data) ==
    IF tool_data.kind = "value" THEN "TypeError"
    ELSE LET obj == tool_data.obj IN
         IF ~Has(obj, "tool") THEN "KeyError"
         ELSE CASE obj["tool"] = <<"read">> ->
                     IF Has(obj, "filename") THEN "read" ELSE "KeyError"
                [] obj["tool"] = <<"write">> ->
                     IF Has(obj, "filename") /\ Has(obj, "content")
                     THEN "write" ELSE "KeyError"
                [] obj["tool"] = <<"research">> ->
                     IF Has(obj, "query") THEN "research" ELSE "KeyError"
                [] obj["tool"] = <<"scrape_webpage">> ->
                     IF Has(obj, "url") THEN "scrape_webpage" ELSE "KeyError"
                [] OTHER -> "None"

\* f"Error parsing tool invocation:\n{response}"
ParseDiagnostic(response) ==
    <<"Error parsing tool invocation:", "\n">> \o response

\* ------------------------------------------------------------------ tools
\* the files the model's answers name: two of the formats written and read
\* through aiofiles, two of those written and read at once, one unsupported
FileNames == {"f.txt", "f.md", "f.csv", "f.docx", "f.exe"}

\* filename.lower().split('.')[-1]
Ext(filename) ==
    CASE filename = <<"f.txt">> -> "txt"
      [] filename = <<"f.md">> -> "md"
      [] filename = <<"f.csv">> -> "csv"
      [] filename = <<"f.docx">> -> "docx"
      [] filename = <<"f.exe">> -> "exe"

\* the file named by a one-symbol filename text
FileOf(filename) == filename[1]

NoFiles == [f \in FileNames |-> [exists |-> FALSE, data |-> <<>>]]

\* read_tool, up to its first suspension: the payload it returns at once, or
\* "suspends" when it awaits aiofiles.open
ReadMissing(filename) ==
    <<"Error: Temporary file '">> \o filename \o <<"' does not exist.">>

ReadUnsupported(filename) ==
    <<"Error: Unsupported file type '", Ext(filename), "' (MIME type).">>

\* await file.read(content) reads the unbound local content: the exception is
\* caught by read_tool's handler
ReadFailed == <<"Error reading from file: ", "local variable 'content'">>

\* the formats whose branch awaits aiofiles.open
ThroughAiofiles == {"txt", "md"}

ReadSuspends(fs, filename) ==
    fs[FileOf(filename)].exists /\ Ext(filename) \in ThroughAiofiles

\* csv.writer.writerow(cells): the cells joined by commas; a row of one empty
\* cell is written as a pair of quotes
CsvRow(cells) ==
    IF cells = <<<<>>>> THEN <<"\"\"">> ELSE Join(cells, <<",">>)

\* for line in content.split("\n"): writer.writerow(line.split(",")), every
\* row ended by the writer's line terminator
WriteCsv(content) ==
    LET lines == Split(content, "\n")
    IN  Join([n \in 1..Len(lines) |->
                 CsvRow(Split(lines[n], ",")) \o <<"\r\n">>], <<>>)

\* csv.reader(file): the rows of cells of the file
CsvRows(data) ==
    LET pieces == Split(data, "\r\n")
        lines == SubSeq(pieces, 1, Len(pieces) - 1)
    IN  [n \in 1..Len(lines) |->
            IF lines[n] = <<"\"\"">> THEN <<<<>>>> ELSE Split(lines[n], ",")]

\* read_csv: "\n".join([", ".join(row) for row in reader])
read_csv(data) ==
    LET rows == CsvRows(data)
    IN  Join([n \in 1..Len(rows) |-> Join(rows[n], <<",", " ">>)], <<"\n">>)

\* read_docx: the paragraphs' texts joined by newlines, or the warning
read_docx(paragraphs) ==
    LET text == Join(paragraphs, <<"\n">>)
    IN  IF text # <<>> THEN text
        ELSE <<"Warning: No text found in the DOCX file.">>

ReadAtOnce(fs, filename) ==
    IF ~fs[FileOf(filename)].exists THEN ReadMissing(filename)
    ELSE CASE Ext(filename) = "csv" -> read_csv(fs[FileOf(filename)].data)
           [] Ext(filename) = "docx" -> read_docx(fs[FileOf(filename)].data)
           [] OTHER -> ReadUnsupported(filename)

\* write_tool: the extension is looked at before the file is touched
WriteSuspends(filename) == Ext(filename) \in ThroughAiofiles

\* the formats written with no suspension: open(path, "w") with csv.writer,
\* Document().save(path); their open is taken to succeed, the failure of an
\* open is followed on the branches that await aiofiles
WriteAtOnce(filename) == Ext(filename) \in {"csv", "docx"}

WriteUnsupported(filename) ==
    <<"Error: Unsupported file type '", Ext(filename),
      "'. Supported formats: TXT, PDF, DOCX, XLSX.">>

WriteSucceeded(filename) ==
    <<"Successfully wrote to '", "temp_dir/">> \o filename \o <<"'.">>

WriteFailed == <<"Error writing to file: ", "e">>

\* open(path, 'w'): the file is created or truncated
Truncated(fs, filename) ==
    [fs EXCEPT ![FileOf(filename)] = [exists |-> TRUE, data |-> <<>>]]

\* file.write(content) through a handle opened at offset 0, flushed on close
Written(fs, filename, content) ==
    [fs EXCEPT ![FileOf(filename)] =
        [exists |-> TRUE,
         data |-> content \o SubSeq(@.data, Len(content) + 1, Len(@.data))]]

\* the csv and docx branches of write_tool: the file is replaced by the rows
\* of the content, by a document of one paragraph per line of the content
WrittenAtOnce(fs, filename, content) ==
    [fs EXCEPT ![FileOf(filename)] =
        [exists |-> TRUE,
         data |-> IF Ext(filename) = "csv" THEN WriteCsv(content)
                  ELSE Split(content, "\n")]]

\* research_tool: the search results, or the caught exception as text
ResearchOutcomes ==
    {<<"[search results]">>, <<"Error fetching search results: ", "e">>}

\* scrape_webpage_tool: a dict with url and content, or a dict with error
ScrapeOutcomes(url) ==
    {[k \in {"url", "content"} |-> IF k = "url" THEN url ELSE <<"page text">>],
     [k \in {"error"} |-> <<"Failed to download content.">>],
     [k \in {"error"} |-> <<"Could not extract meaningful content.">>],
     [k \in {"error"} |-> <<"Scraping failed: ", "e">>]}

\* scrape_results.get('content', 'No content.')
GetContent(scrape_results) ==
    IF Has(scrape_results, "content") THEN scrape_results["content"]
    ELSE <<"No content.">>

\* what handle_tool_request adds to updated_conversation
FileNote(filename, read_data) ==
    <<"\n", "\n", "[File '">> \o filename \o <<"' content:]", "\n">> \o read_data

ResearchNote(query, search_results) ==
    <<"\n", "\n", "[Research on '">> \o query \o <<"':]", "\n">> \o search_results

WebpageNote(url, scrape_results) ==
    <<"\n", "\n", "[Webpage '">> \o url \o <<"' info:]", "\n">>
        \o GetContent(scrape_results)

\* ---------------------------------------------------------------- state
VARIABLES
    chat_history,       \* st.session_state["chat_history"]: the transcript
    companies,          \* st.session_state["companies"]: the perspective set
    selected_agents,    \* st.session_state["selected_agents"]
    agent_number,       \* st.session_state["agent_number"]
    files,              \* the session's temp directory
    handler,            \* where the script run of the sidebar chat handler is
    user_input,         \* the message the running handler was given
    derive_response,    \* the perspective model's raw answer (determine_companies)
    conversation_text,  \* run_agents: the snapshot handed to every generation
    tasks               \* run_agents: one generate_response task per company

vars == <<chat_history, companies, selected_agents, agent_number, files,
          handler, user_input, derive_response, conversation_text, tasks>>

session == <<chat_history, companies, selected_agents, agent_number>>

UserRole == <<"user">>

\* ------------------------------------------------------------- run_agents
\* str.upper() of the symbols a role is made of
Upper(c) ==
    CASE c = "a" -> "A"
      [] c = "b" -> "B"
      [] c = "user" -> "USER"
      [] OTHER -> c

UpperText(s) == [i \in 1..Len(s) |-> Upper(s[i])]

\* len(text) in characters
RECURSIVE TextLen(_)
TextLen(s) == IF s = <<>> THEN 0 ELSE Len(Head(s)) + TextLen(Tail(s))

\* text[-n:] for n > 0: the symbol that the cut falls in is cut
RECURSIVE LastChars(_, _)
LastChars(s, n) ==
    IF TextLen(s) <= n THEN s
    ELSE IF TextLen(Tail(s)) >= n THEN LastChars(Tail(s), n)
    ELSE LET kept == n - TextLen(Tail(s))
         IN  <<SubSeq(Head(s), Len(Head(s)) - kept + 1, Len(Head(s)))>> \o Tail(s)

\* text[:n]
RECURSIVE FirstChars(_, _)
FirstChars(s, n) ==
    IF TextLen(s) <= n THEN s
    ELSE IF n = 0 THEN <<>>
    ELSE IF Len(Head(s)) >= n THEN <<SubSeq(Head(s), 1, n)>>
    ELSE <<Head(s)>> \o FirstChars(Tail(s), n - Len(Head(s)))

max_length == 5000

\* a plausible slip: the transcript cut to its first max_length characters
ConversationTextHead(conversation) ==
    LET text == Join([i \in 1..Len(conversation) |->
                        UpperText(conversation[i].role) \o <<":", " ">>
                            \o conversation[i].content], <<"\n">>)
    IN  IF TextLen(text) > max_length THEN FirstChars(text, max_length) ELSE text

\* the rendered transcript, cut to its last max_length characters
ConversationText(conversation) ==
    LET text == Join([i \in 1..Len(conversation) |->
                        UpperText(conversation[i].role) \o <<":", " ">>
                            \o conversation[i].content], <<"\n">>)
    IN  IF TextLen(text) > max_length THEN LastChars(text, max_length) ELSE text

NoToolData == [kind |-> "none", obj |-> NoObject]

\* what the tool has returned: nothing yet, a str or a dict
NoResult == [kind |-> "none", value |-> <<>>]

StrResult(text) == [kind |-> "str", value |-> text]

DictResult(dict) == [kind |-> "dict", value |-> dict]

\* a generate_response task that has built its prompt and awaits chain.run
\*   pc: "model" the first chain.run is in flight; "read_open", "write_open",
\*       "write_data" the tool awaits aiofiles; "research" the task is inside
\*       search_tool.invoke; "informed" the chain.run of handle_tool_request
\*       is in flight; "returned"; "raised"
\*   conversation: conversation_so_far of the latest chain.run
\*   model_calls, answers: the chain.run calls made, and those that returned
\*   tool_calls: the tools called
\*   tool_result: what the tool returned
\*   waited: the periods of 10 s that search_tool.invoke has run for
NewTask(company, text) ==
    [pc |-> "model", company |-> company, conversation |-> text,
     response |-> <<>>, tool_data |-> NoToolData, tool |-> "none",
     note |-> <<>>, informed_response |-> <<>>, result |-> <<>>,
     model_calls |-> 1, answers |-> 0, tool_calls |-> 0,
     tool_result |-> NoResult, waited |-> 0]

\* tasks = [generate_response(company, ...) for company in companies]
Launch(cs, text) == [i \in 1..Len(cs) |-> NewTask(cs[i], text)]

Finished == {"returned", "raised"}

\* dict(zip(companies, results)).items(): a key stays where it was first
\* inserted and holds the value inserted last
DictItems(cs, results) ==
    LET firsts == {i \in 1..Len(cs) : \A j \in 1..(i - 1) : cs[j] # cs[i]}
        IsFirst(i) == i \in firsts
        order == SelectSeq([i \in 1..Len(cs) |-> i], IsFirst)
        Last(k) == CHOOSE i \in 1..Len(cs) :
                       cs[i] = k /\ \A j \in (i + 1)..Len(cs) : cs[j] # k
    IN  [n \in 1..Len(order) |->
            [role |-> cs[order[n]], content |-> results[Last(cs[order[n]])]]]

\* ------------------------------------------------------ generate_response
\* what generate_response does with the first response:
\*   "plain"       no block, or a block no branch of handle_tool_request
\*                 takes: response.strip() is returned
\*   "diagnostic"  json.JSONDecodeError or KeyError is caught
\*   "TypeError"   the exception leaves generate_response
\*   a tool name   handle_tool_request calls the tool
Classify(response) ==
    IF ~json_match(response) THEN "plain"
    ELSE LET tool_data == JsonLoads(MatchGroup(response)) IN
         IF tool_data.kind = "JSONDecodeError" THEN "diagnostic"
         ELSE LET branch == Branch(tool_data) IN
              CASE branch = "None" -> "plain"
                [] branch = "KeyError" -> "diagnostic"
                [] OTHER -> branch

ToolData(response) ==
    IF json_match(response) THEN JsonLoads(MatchGroup(response)) ELSE NoToolData

\* a plausible slip: the response returned as it came
PlainReturnRaw(response) == response

\* return response.strip()
PlainReturn(response) == Strip(response)

\* a plausible slip: the first response returned whatever the tool call gave
ToolReturnFirst(response, tool_response) == Strip(response)

\* if tool_response: return tool_response; otherwise the first response is
\* returned stripped
ToolReturn(response, tool_response) ==
    IF tool_response # <<>> THEN tool_response ELSE PlainReturn(response)

\* a plausible slip: the conversation kept in one buffer that every task of
\* the round adds to
UpdatedConversationShared(i, note) ==
    LET longest == CHOOSE j \in DOMAIN tasks :
            \A k \in DOMAIN tasks :
                Len(tasks[k].conversation) <= Len(tasks[j].conversation)
    IN  tasks[longest].conversation \o note

\* updated_conversation = conversation_so_far; updated_conversation += note
UpdatedConversation(i, note) == tasks[i].conversation \o note

\* response = await asyncio.to_thread(chain.run, ...) and the parse of its block
Received(t, response) ==
    [t EXCEPT !.response = response, !.tool_data = ToolData(response),
              !.answers = 1]

Returned(t, response, text) ==
    [Received(t, response) EXCEPT !.pc = "returned", !.result = text]

\* a plausible slip: chain.run called with conversation_so_far, not with
\* updated_conversation
InformedStale(i, response, tool, note) ==
    [Received(tasks[i], response) EXCEPT
        !.pc = "informed", !.tool = tool, !.note = note,
        !.model_calls = @ + 1, !.tool_calls = 1]

\* the tool has answered: handle_tool_request calls chain.run again
Informed(i, response, tool, note) ==
    [Received(tasks[i], response) EXCEPT
        !.pc = "informed", !.tool = tool, !.note = note,
        !.conversation = UpdatedConversation(i, note),
        !.model_calls = @ + 1, !.tool_calls = 1]

Suspended(t, response, tool, pc) ==
    [Received(t, response) EXCEPT !.pc = pc, !.tool = tool, !.tool_calls = 1]

\* write_tool has returned write_result: handle_tool_request returns it and
\* generate_response returns it, or the stripped response if it is empty
WriteReturned(t, write_result) ==
    [t EXCEPT !.pc = "returned", !.tool = "write", !.tool_calls = 1,
              !.tool_result = StrResult(write_result),
              !.result = ToolReturn(t.response, write_result)]

\* search_tool.invoke is a blocking call made on the event loop's thread:
\* while a task is inside it no coroutine of the round is resumed
EventLoopFree == \A j \in DOMAIN tasks : tasks[j].pc # "research"

\* the first chain.run of task i returns response; the task runs on to its
\* next suspension (lines 146-155 and 64-95)
ModelResponds(i, response) ==
    LET t == tasks[i]
        kind == Classify(response)
        obj == ToolData(response).obj
    IN  /\ handler = "gathering"
        /\ i \in DOMAIN tasks
        /\ t.pc = "model"
        /\ EventLoopFree
        /\ files' = IF kind = "write" /\ WriteAtOnce(obj["filename"])
                    THEN WrittenAtOnce(files, obj["filename"], obj["content"])
                    ELSE files
        /\ CASE kind = "plain" ->
                  tasks' = [tasks EXCEPT ![i] =
                               Returned(t, response, PlainReturn(response))]
             [] kind = "diagnostic" ->
                  tasks' = [tasks EXCEPT ![i] =
                               Returned(t, response, ParseDiagnostic(response))]
             [] kind = "TypeError" ->
                  tasks' = [tasks EXCEPT ![i] =
                               [Received(t, response) EXCEPT !.pc = "raised"]]
             [] kind = "read" ->
                  IF ReadSuspends(files, obj["filename"])
                  THEN tasks' = [tasks EXCEPT ![i] =
                                    Suspended(t, response, "read", "read_open")]
                  ELSE LET read_data == ReadAtOnce(files, obj["filename"])
                       IN  tasks' = [tasks EXCEPT ![i] =
                                        [Informed(i, response, "read",
                                             FileNote(obj["filename"], read_data))
                                         EXCEPT !.tool_result = StrResult(read_data)]]
             [] kind = "write" ->
                  IF WriteSuspends(obj["filename"])
                  THEN tasks' = [tasks EXCEPT ![i] =
                                    Suspended(t, response, "write", "write_open")]
                  ELSE tasks' = [tasks EXCEPT ![i] =
                                    WriteReturned(Received(t, response),
                                        IF WriteAtOnce(obj["filename"])
                                        THEN WriteSucceeded(obj["filename"])
                                        ELSE WriteUnsupported(obj["filename"]))]
             [] kind = "research" ->
                  tasks' = [tasks EXCEPT ![i] =
                               Suspended(t, response, "research", "research")]
             [] kind = "scrape_webpage" ->
                  \E scrape_results \in ScrapeOutcomes(obj["url"]) :
                      tasks' = [tasks EXCEPT ![i] =
                                   [Informed(i, response, "scrape_webpage",
                                        WebpageNote(obj["url"], scrape_results))
                                    EXCEPT !.tool_result = DictResult(scrape_results)]]
        /\ UNCHANGED <<session, handler, user_input, derive_response,
                       conversation_text>>

\* search_tool.invoke has not answered for another period of 10 s: nothing
\* in research_tool or in its callers limits the wait
SearchWaits(i) ==
    /\ handler = "gathering"
    /\ i \in DOMAIN tasks
    /\ tasks[i].pc = "research"
    /\ tasks[i].waited < MaxWait
    /\ tasks' = [tasks EXCEPT ![i].waited = @ + 1]
    /\ UNCHANGED <<session, files, handler, user_input, derive_response,
                   conversation_text>>

\* search_tool.invoke returns the results or raises, research_tool returns
\* search_results and chain.run is called again
SearchReturns(i, search_results) ==
    /\ handler = "gathering"
    /\ i \in DOMAIN tasks
    /\ tasks[i].pc = "research"
    /\ tasks' = [tasks EXCEPT ![i] =
                    [Informed(i, tasks[i].response, "research",
                         ResearchNote(tasks[i].tool_data.obj["query"],
                                      search_results))
                     EXCEPT !.tool_result = StrResult(search_results)]]
    /\ UNCHANGED <<session, files, handler, user_input, derive_response,
                   conversation_text>>

\* read_tool resumes after aiofiles.open: file.read(content) raises, the
\* handler returns the error text, and chain.run is called again
ReadResumes(i) ==
    /\ handler = "gathering"
    /\ i \in DOMAIN tasks
    /\ tasks[i].pc = "read_open"
    /\ EventLoopFree
    /\ tasks' = [tasks EXCEPT ![i] =
                    [Informed(i, tasks[i].response, "read",
                         FileNote(tasks[i].tool_data.obj["filename"], ReadFailed))
                     EXCEPT !.tool_result = StrResult(ReadFailed)]]
    /\ UNCHANGED <<session, files, handler, user_input, derive_response,
                   conversation_text>>

\* write_tool resumes after aiofiles.open(path, 'w'): the file is created or
\* truncated, or the open failed and the handler returns the error text
WriteOpens(i, opened) ==
    /\ handler = "gathering"
    /\ i \in DOMAIN tasks
    /\ tasks[i].pc = "write_open"
    /\ EventLoopFree
    /\ IF opened
       THEN /\ files' = Truncated(files, tasks[i].tool_data.obj["filename"])
            /\ tasks' = [tasks EXCEPT ![i].pc = "write_data"]
       ELSE /\ files' = files
            /\ tasks' = [tasks EXCEPT ![i] = WriteReturned(tasks[i], WriteFailed)]
    /\ UNCHANGED <<session, handler, user_input, derive_response,
                   conversation_text>>

\* a plausible slip: the result of the tool published to the transcript as
\* soon as the tool returns
WriteResumesAppends(i) ==
    /\ handler = "gathering"
    /\ i \in DOMAIN tasks
    /\ tasks[i].pc = "write_data"
    /\ EventLoopFree
    /\ files' = Written(files, tasks[i].tool_data.obj["filename"],
                        tasks[i].tool_data.obj["content"])
    /\ tasks' = [tasks EXCEPT ![i] =
                    WriteReturned(tasks[i],
                        WriteSucceeded(tasks[i].tool_data.obj["filename"]))]
    /\ chat_history' = Append(chat_history,
                              [role |-> tasks[i].company,
                               content |-> tasks'[i].result])
    /\ UNCHANGED <<companies, selected_agents, agent_number, handler,
                   user_input, derive_response, conversation_text>>

\* write_tool resumes after file.write(content) and the close: its result is
\* what handle_tool_request, and so generate_response, returns
WriteResumes(i) ==
    /\ handler = "gathering"
    /\ i \in DOMAIN tasks
    /\ tasks[i].pc = "write_data"
    /\ EventLoopFree
    /\ files' = Written(files, tasks[i].tool_data.obj["filename"],
                        tasks[i].tool_data.obj["content"])
    /\ tasks' = [tasks EXCEPT ![i] =
                    WriteReturned(tasks[i],
                        WriteSucceeded(tasks[i].tool_data.obj["filename"]))]
    /\ UNCHANGED <<session, handler, user_input, derive_response,
                   conversation_text>>

ToolNames == {"read", "write", "research", "scrape_webpage"}

\* a plausible slip: the informed response scanned again and its tool called
\* again, up to a ceiling of 8 chain.run calls
InformedRespondsLoop(i, informed_response) ==
    /\ handler = "gathering"
    /\ i \in DOMAIN tasks
    /\ tasks[i].pc = "informed"
    /\ EventLoopFree
    /\ IF Classify(informed_response) \in ToolNames /\ tasks[i].model_calls < 8
       THEN tasks' = [tasks EXCEPT
                        ![i].answers = @ + 1,
                        ![i].informed_response = informed_response,
                        ![i].model_calls = @ + 1,
                        ![i].tool_calls = @ + 1]
       ELSE tasks' = [tasks EXCEPT
                        ![i].pc = "returned",
                        ![i].answers = @ + 1,
                        ![i].informed_response = informed_response,
                        ![i].result = ToolReturn(tasks[i].response,
                                                 informed_response)]
    /\ UNCHANGED <<session, files, handler, user_input, derive_response,
                   conversation_text>>

\* the chain.run of handle_tool_request returns informed_response
InformedResponds(i, informed_response) ==
    /\ handler = "gathering"
    /\ i \in DOMAIN tasks
    /\ tasks[i].pc = "informed"
    /\ EventLoopFree
    /\ tasks' = [tasks EXCEPT
                    ![i].pc = "returned",
                    ![i].answers = @ + 1,
                    ![i].informed_response = informed_response,
                    ![i].result = ToolReturn(tasks[i].response, informed_response)]
    /\ UNCHANGED <<session, files, handler, user_input, derive_response,
                   conversation_text>>

\* a chain.run raises (rate limit, network): nothing catches it
ModelFails(i) ==
    /\ handler = "gathering"
    /\ i \in DOMAIN tasks
    /\ tasks[i].pc \in {"model", "informed"}
    /\ EventLoopFree
    /\ tasks' = [tasks EXCEPT ![i].pc = "raised"]
    /\ UNCHANGED <<session, files, handler, user_input, derive_response,
                   conversation_text>>

\* ---------------------------------------------------- sidebar chat handler
\* rounds (user messages) a session is followed for
MaxRounds == 2

Idle == {"idle", "derive_failed", "round_failed"}

UserCount(history) ==
    Cardinality({i \in 1..Len(history) : history[i].role = UserRole})

\* a plausible slip: the perspectives derived anew for every message
UserInputRederives(message) ==
    /\ handler \in Idle
    /\ UserCount(chat_history) < MaxRounds
    /\ chat_history' = Append(chat_history,
                              [role |-> UserRole, content |-> message])
    /\ user_input' = message
    /\ handler' = "deriving"
    /\ tasks' = <<>>
    /\ UNCHANGED <<companies, selected_agents, agent_number, files,
                   derive_response, conversation_text>>

\* a plausible slip: the round's snapshot rendered before the message is
\* appended
UserInputSnapshotFirst(message) ==
    /\ handler \in Idle
    /\ UserCount(chat_history) < MaxRounds
    /\ chat_history' = Append(chat_history,
                              [role |-> UserRole, content |-> message])
    /\ user_input' = message
    /\ IF companies = <<>>
       THEN /\ handler' = "deriving"
            /\ tasks' = <<>>
            /\ UNCHANGED conversation_text
       ELSE /\ handler' = "gathering"
            /\ conversation_text' = ConversationText(chat_history)
            /\ tasks' = Launch(selected_agents, conversation_text')
    /\ UNCHANGED <<companies, selected_agents, agent_number, files,
                   derive_response>>

\* if user_input: the message is appended; with no perspectives yet the
\* script waits in determine_companies, otherwise it goes on into run_agents
UserInput(message) ==
    /\ handler \in Idle
    /\ UserCount(chat_history) < MaxRounds
    /\ chat_history' = Append(chat_history,
                              [role |-> UserRole, content |-> message])
    /\ user_input' = message
    /\ IF companies = <<>>
       THEN /\ handler' = "deriving"
            /\ tasks' = <<>>
            /\ UNCHANGED conversation_text
       ELSE /\ handler' = "gathering"
            /\ conversation_text' = ConversationText(chat_history')
            /\ tasks' = Launch(selected_agents, conversation_text')
    /\ UNCHANGED <<companies, selected_agents, agent_number, files,
                   derive_response>>

\* a plausible slip: the selection left as it was when the perspectives are
\* stored
DeriveReturnsKeepsSelection(response) ==
    /\ handler = "deriving"
    /\ derive_response' = response
    /\ companies' = determine_companies(response, agent_number)
    /\ selected_agents' = selected_agents
    /\ handler' = "gathering"
    /\ conversation_text' = ConversationText(chat_history)
    /\ tasks' = Launch(selected_agents', conversation_text')
    /\ UNCHANGED <<chat_history, agent_number, files, user_input>>

\* determine_companies returns: the perspectives are stored, all of them are
\* selected, and the script goes on into run_agents
DeriveReturns(response) ==
    /\ handler = "deriving"
    /\ derive_response' = response
    /\ companies' = determine_companies(response, agent_number)
    /\ selected_agents' = companies'
    /\ handler' = "gathering"
    /\ conversation_text' = ConversationText(chat_history)
    /\ tasks' = Launch(selected_agents', conversation_text')
    /\ UNCHANGED <<chat_history, agent_number, files, user_input>>

\* the chain.run of determine_companies raises: the script run ends
DeriveFails ==
    /\ handler = "deriving"
    /\ handler' = "derive_failed"
    /\ UNCHANGED <<session, files, user_input, derive_response,
                   conversation_text, tasks>>

\* a plausible slip: the tasks gathered with return_exceptions and the
\* results that are texts appended
RoundCompletesPartial ==
    /\ handler = "gathering"
    /\ \A i \in DOMAIN tasks : tasks[i].pc \in Finished
    /\ LET IsText(i) == tasks[i].pc = "returned"
           kept == SelectSeq([i \in DOMAIN tasks |-> i], IsText)
       IN  chat_history' = chat_history \o
               DictItems([n \in 1..Len(kept) |-> tasks[kept[n]].company],
                         [n \in 1..Len(kept) |-> tasks[kept[n]].result])
    /\ handler' = "idle"
    /\ tasks' = <<>>
    /\ UNCHANGED <<companies, selected_agents, agent_number, files, user_input,
                   derive_response, conversation_text>>

\* asyncio.gather has every result: run_agents returns the dict and the
\* handler appends its items
RoundCompletes ==
    /\ handler = "gathering"
    /\ \A i \in DOMAIN tasks : tasks[i].pc = "returned"
    /\ chat_history' = chat_history \o
           DictItems([i \in DOMAIN tasks |-> tasks[i].company],
                     [i \in DOMAIN tasks |-> tasks[i].result])
    /\ handler' = "idle"
    /\ tasks' = <<>>
    /\ UNCHANGED <<companies, selected_agents, agent_number, files, user_input,
                   derive_response, conversation_text>>

\* a plausible slip: the user's message taken back when the round fails
RoundFailsRollback ==
    /\ handler = "gathering"
    /\ \E i \in DOMAIN tasks : tasks[i].pc = "raised"
    /\ handler' = "round_failed"
    /\ tasks' = <<>>
    /\ chat_history' = SubSeq(chat_history, 1, Len(chat_history) - 1)
    /\ UNCHANGED <<companies, selected_agents, agent_number, files, user_input,
                   derive_response, conversation_text>>

\* a task raised: asyncio.gather raises, asyncio.run cancels the other tasks
\* and the script run ends in the exception
RoundFails ==
    /\ handler = "gathering"
    /\ \E i \in DOMAIN tasks : tasks[i].pc = "raised"
    /\ handler' = "round_failed"
    /\ tasks' = <<>>
    /\ UNCHANGED <<session, files, user_input, derive_response,
                   conversation_text>>

\* the sub-lists of a list, by position
SubLists(list) ==
    {LET Kept(i) == i \in keep
     IN  [n \in 1..Cardinality(keep) |->
             list[SelectSeq([i \in 1..Len(list) |-> i], Kept)[n]]]
     : keep \in SUBSET (1..Len(list))}

SliderValues == 2..6

\* the Agent Settings dialog: the slider, and with perspectives present the
\* All Agents checkbox or one checkbox per perspective
agent_settings(number, selection) ==
    /\ handler \in Idle
    /\ number \in SliderValues
    /\ agent_number' = number
    /\ IF companies # <<>>
       THEN /\ selection \in SubLists(companies)
            /\ selected_agents' = selection
       ELSE /\ selection = selected_agents
            /\ UNCHANGED selected_agents
    /\ UNCHANGED <<chat_history, companies, files, handler, user_input,
                   derive_response, conversation_text, tasks>>

\* ------------------------------------------------------- the model's answers
Fenced(body) == <<"~~~json", "\n">> \o body \o <<"\n", "~~~">>

Object(members) == <<"{">> \o members \o <<"}">>

ReadBlock == Fenced(Object(<<"tool=read", "filename=f.txt">>))

WriteBlock == Fenced(Object(<<"tool=write", "filename=f.txt", "content=x">>))

\* answers of the response model that a single generation is followed for
Responses ==
    {<<"hi">>, <<" ", "hi", "\n">>, <<>>, <<" ", "\n">>,
     \* fences that are no block: on one line, never closed
     <<"\n", "~~~json", " ">> \o Object(<<"tool=read", "filename=f.txt">>)
         \o <<" ", "~~~", "\n">>,
     <<"~~~json", "\n">> \o Object(<<"tool=read", "filename=f.txt">>),
     \* well-formed calls
     <<" ", "hi", "\n">> \o ReadBlock \o <<"\n">>,
     Fenced(Object(<<"tool=read", "filename=f.exe">>)),
     WriteBlock,
     <<"hi", "\n">> \o Fenced(Object(<<"tool=write", "content=y", "filename=f.txt">>)),
     Fenced(Object(<<"tool=write", "filename=f.exe", "content=x">>)),
     <<"hi", " ">> \o Fenced(Object(<<"tool=research", "query=q">>)),
     Fenced(<<" ">> \o Object(<<"tool=scrape_webpage", "\n", "url=u">>)),
     \* two blocks: the first one counts
     ReadBlock \o <<"\n">> \o WriteBlock,
     \* a required field is missing
     <<"hi", "\n">> \o Fenced(Object(<<"tool=read">>)) \o <<" ">>,
     Fenced(Object(<<"tool=read", "query=q">>)),
     Fenced(Object(<<"tool=write", "filename=f.txt">>)),
     Fenced(Object(<<"tool=write", "content=x">>)),
     Fenced(Object(<<"tool=research", "url=u">>)),
     Fenced(Object(<<"tool=scrape_webpage">>)),
     \* no tool, an unknown tool
     Fenced(Object(<<"filename=f.txt">>)),
     <<" ">> \o Fenced(Object(<<"tool=delete", "filename=f.txt">>)) \o <<"\n">>,
     \* no object
     Fenced(<<"oops">>), Fenced(<<>>), Fenced(<<"[", "]">>), Fenced(<<"7">>)}

\* answers of the response model to the prompt that holds the tool's result
InformedResponses ==
    {<<"ok">>, <<" ", "ok", "\n">>, <<>>, <<"ok", "\n">> \o ReadBlock}

\* the answers a whole session is followed for
RoundResponses ==
    {<<" ", "hi">>, ReadBlock, WriteBlock, Fenced(Object(<<"tool=read">>)),
     Fenced(<<"7">>)}

RoundInformedResponses == {<<"ok">>}

UserMessages == {<<"q">>}

\* answers of the perspective model a whole session is followed for
DeriveAnswers ==
    {<<"a", ",", " ", "b">>, <<"a", ",", "a">>, <<"b">>, <<" ", ",">>}

\* ------------------------------------------------------------- the session
Init ==
    /\ chat_history = <<>>
    /\ companies = <<>>
    /\ selected_agents = <<>>
    /\ agent_number = 4
    /\ files = NoFiles
    /\ handler = "idle"
    /\ user_input = <<>>
    /\ derive_response = <<>>
    /\ conversation_text = <<>>
    /\ tasks = <<>>

Input == \E message \in UserMessages : UserInput(message)

Derived == \E response \in DeriveAnswers : DeriveReturns(response)

Settings ==
    \E number \in SliderValues, selection \in SubLists(companies) :
        agent_settings(number, selection)

Answered ==
    \E i \in DOMAIN tasks, response \in RoundResponses : ModelResponds(i, response)

ReadResumed == \E i \in DOMAIN tasks : ReadResumes(i)

\* in a whole session every open succeeds
WriteOpened == \E i \in DOMAIN tasks : WriteOpens(i, TRUE)

WriteResumed == \E i \in DOMAIN tasks : WriteResumes(i)

InformedAnswered ==
    \E i \in DOMAIN tasks, response \in RoundInformedResponses :
        InformedResponds(i, response)

ModelFailed == \E i \in DOMAIN tasks : ModelFails(i)

Next ==
    \/ Input
    \/ Derived
    \/ DeriveFails
    \/ Settings
    \/ Answered
    \/ ReadResumed
    \/ WriteOpened
    \/ WriteResumed
    \/ InformedAnswered
    \/ ModelFailed
    \/ RoundCompletes
    \/ RoundFails

Spec == Init /\ [][Next]_vars

\* ------------------------------------------------------- one generation
\* a round of one perspective, in a session whose temp directory may hold
\* files of earlier rounds, followed through every answer of Responses
GenInit ==
    /\ chat_history = <<[role |-> UserRole, content |-> <<"q">>]>>
    /\ companies = <<<<"a">>>>
    /\ selected_agents = companies
    /\ agent_number = 4
    /\ files \in {NoFiles, Written(NoFiles, <<"f.txt">>, <<"y", "y">>),
                  Written(NoFiles, <<"f.exe">>, <<"x">>)}
    /\ handler = "gathering"
    /\ user_input = <<"q">>
    /\ derive_response = <<"a">>
    /\ conversation_text = ConversationText(chat_history)
    /\ tasks = Launch(selected_agents, conversation_text)

GenAnswered ==
    \E i \in DOMAIN tasks, response \in Responses : ModelResponds(i, response)

GenWriteOpened ==
    \E i \in DOMAIN tasks, opened \in BOOLEAN : WriteOpens(i, opened)

GenInformedAnswered ==
    \E i \in DOMAIN tasks, response \in InformedResponses :
        InformedResponds(i, response)

SearchWaited == \E i \in DOMAIN tasks : SearchWaits(i)

SearchReturned ==
    \E i \in DOMAIN tasks, search_results \in ResearchOutcomes :
        SearchReturns(i, search_results)

GenNext ==
    \/ GenAnswered
    \/ SearchWaited
    \/ SearchReturned
    \/ ReadResumed
    \/ GenWriteOpened
    \/ WriteResumed
    \/ GenInformedAnswered
    \/ ModelFailed
    \/ RoundCompletes
    \/ RoundFails

\* every chain.run and every tool call returns or raises: a step that can be
\* taken is taken
GenSpec == GenInit /\ [][GenNext]_vars /\ WF_vars(GenNext)

\* ------------------------------------------------- the session's files
ReadOf(file) == Fenced(Object(<<"tool=read", file>>))

WriteOf(file, content) == Fenced(Object(<<"tool=write", file, content>>))

\* answers that write and read the files of the session
FileResponses ==
    {ReadOf(file) : file \in {"filename=f.txt", "filename=f.md",
                              "filename=f.csv", "filename=f.docx"}}
    \cup {WriteOf(file, content) :
             file \in {"filename=f.txt", "filename=f.md", "filename=f.csv",
                       "filename=f.docx"},
             content \in {"content=x", "content=a,b/c,d"}}

\* the round of two perspectives in a session that holds no file yet
FileInit ==
    /\ chat_history = <<[role |-> UserRole, content |-> <<"q">>]>>
    /\ companies = <<<<"a">>, <<"b">>>>
    /\ selected_agents = companies
    /\ agent_number = 4
    /\ files = NoFiles
    /\ handler = "gathering"
    /\ user_input = <<"q">>
    /\ derive_response = <<"a", ",", "b">>
    /\ conversation_text = ConversationText(chat_history)
    /\ tasks = Launch(selected_agents, conversation_text)

FileAnswered ==
    \E i \in DOMAIN tasks, response \in FileResponses : ModelResponds(i, response)

FileNext ==
    \/ FileAnswered
    \/ ReadResumed
    \/ WriteOpened
    \/ WriteResumed
    \/ InformedAnswered
    \/ RoundCompletes

FileSpec == FileInit /\ [][FileNext]_vars

\* ------------------------------------------------- the tools of a round
ResearchBlock == Fenced(Object(<<"tool=research", "query=q">>))

\* answers that call the tools of two perspectives side by side
ToolResponses == {<<"hi">>, ReadBlock, WriteBlock, ResearchBlock}

ToolAnswered ==
    \E i \in DOMAIN tasks, response \in ToolResponses : ModelResponds(i, response)

\* the round of two perspectives, every answer and every tool returning
ToolNext ==
    \/ ToolAnswered
    \/ SearchWaited
    \/ SearchReturned
    \/ ReadResumed
    \/ WriteOpened
    \/ WriteResumed
    \/ InformedAnswered
    \/ RoundCompletes

ToolSpec == FileInit /\ [][ToolNext]_vars

\* ------------------------------------------------- the round's snapshot
X10 == "xxxxxxxxxx"

X50 == X10 \o X10 \o X10 \o X10 \o X10

X250 == X50 \o X50 \o X50 \o X50 \o X50

X1250 == X250 \o X250 \o X250 \o X250 \o X250

\* a message of n characters in one symbol, n <= 5000
Long(n) == <<SubSeq(X1250 \o X1250 \o X1250 \o X1250, 1, n)>>

\* lengths of the messages of the transcripts that run_agents is followed for:
\* alone and in twos and threes they render to texts just under, at and over
\* max_length characters
LongLengths == {2490, 2491, 4994, 4995}

SnapshotContents == {<<"q">>} \cup {Long(n) : n \in LongLengths}

\* the transcripts of a session when run_agents is called: rounds of one or
\* two answers, the user's message last
SnapshotTranscripts ==
    LET User(c) == [role |-> UserRole, content |-> c]
        Agent(r, c) == [role |-> <<r>>, content |-> c]
    IN  {<<User(c)>> : c \in SnapshotContents}
        \cup {<<User(c), Agent("a", d), User(e)>> :
                 c \in SnapshotContents, d \in SnapshotContents,
                 e \in SnapshotContents}
        \cup {<<User(c), Agent("a", d), Agent("b", d), User(e)>> :
                 c \in SnapshotContents, d \in SnapshotContents,
                 e \in SnapshotContents}

SnapshotInit ==
    /\ chat_history \in SnapshotTranscripts
    /\ companies = <<<<"a">>, <<"b">>>>
    /\ selected_agents = companies
    /\ agent_number = 4
    /\ files = NoFiles
    /\ handler = "run_agents"
    /\ user_input = chat_history[Len(chat_history)].content
    /\ derive_response = <<"a", ",", "b">>
    /\ conversation_text = <<>>
    /\ tasks = <<>>

\* lines 158-162: the snapshot is taken and the generations are created
RunAgents ==
    /\ handler = "run_agents"
    /\ conversation_text' = ConversationText(chat_history)
    /\ tasks' = Launch(selected_agents, conversation_text')
    /\ handler' = "gathering"
    /\ UNCHANGED <<session, files, user_input, derive_response>>

SnapshotNext == RunAgents

SnapshotSpec == SnapshotInit /\ [][SnapshotNext]_vars

\* ------------------------------------- determine_companies as a function
Symbols == {",", " ", "a", "b"}

RECURSIVE TextsUpTo(_)
TextsUpTo(n) ==
    IF n = 0 THEN {<<>>}
    ELSE LET shorter == TextsUpTo(n - 1)
         IN  shorter \cup {Append(t, c) : t \in {u \in shorter : Len(u) = n - 1},
                                          c \in Symbols}

DeriveInit ==
    /\ chat_history = <<[role |-> UserRole, content |-> <<"q">>]>>
    /\ companies = <<>>
    /\ selected_agents = <<>>
    /\ agent_number \in 1..MaxCount
    /\ files = NoFiles
    /\ handler = "determine_companies"
    /\ user_input = <<"q">>
    /\ derive_response \in TextsUpTo(MaxAnswerLen)
    /\ conversation_text = <<>>
    /\ tasks = <<>>

\* lines 61-62 applied to the answer
DetermineCompanies ==
    /\ handler = "determine_companies"
    /\ companies' = determine_companies(derive_response, agent_number)
    /\ handler' = "determined"
    /\ UNCHANGED <<chat_history, selected_agents, agent_number, files,
                   user_input, derive_response, conversation_text, tasks>>

DeriveNext == DetermineCompanies

DeriveSpec == DeriveInit /\ [][DeriveNext]_vars

\* ================================================================= claims
\* the text between the first and the last symbol of s that is no whitespace
Trimmed(s) ==
    LET solid == {i \in 1..Len(s) : s[i] \notin Whitespace}
    IN  IF solid = {} THEN <<>>
        ELSE SubSeq(s, CHOOSE i \in solid : \A j \in solid : i <= j,
                       CHOOSE i \in solid : \A j \in solid : j <= i)

\* the comma-separated pieces of an answer, each named by the position of the
\* comma before it (0 for the first piece)
PieceStarts(s) == {0} \cup {i \in 1..Len(s) : s[i] = ","}

PieceAt(s, p) ==
    LET later == {i \in (p + 1)..Len(s) : s[i] = ","}
        end == IF later = {} THEN Len(s) + 1
               ELSE CHOOSE i \in later : \A j \in later : i <= j
    IN  Trimmed(SubSeq(s, p + 1, end - 1))

KeptStarts(s) == {p \in PieceStarts(s) : PieceAt(s, p) # <<>>}

\* the n-th kept piece, counted from the left
KeptPiece(s, n) ==
    PieceAt(s, CHOOSE p \in KeptStarts(s) :
                   Cardinality({q \in KeptStarts(s) : q < p}) = n - 1)

\* C4: for every count N >= 1 and every raw answer, determine_companies
\* returns at most N entries, none of them empty or whitespace-only, and no
\* entry twice.
C4_DistinctNonEmptyAtMostN ==
    handler = "determined" =>
        /\ Len(companies) <= agent_number
        /\ \A i \in 1..Len(companies) :
              \E k \in 1..Len(companies[i]) : companies[i][k] \notin Whitespace
        /\ \A i, j \in 1..Len(companies) : i # j => companies[i] # companies[j]

\* C5: the result of determine_companies is the first N, in their order, of
\* the trimmed comma-separated pieces of the answer that are not empty.
C5_FirstNTrimmedPieces ==
    handler = "determined" =>
        /\ Len(companies) = IF Cardinality(KeptStarts(derive_response)) < agent_number
                            THEN Cardinality(KeptStarts(derive_response))
                            ELSE agent_number
        /\ \A n \in 1..Len(companies) :
              companies[n] = KeptPiece(derive_response, n)

\* an answer with an empty piece, a piece to trim and more pieces than asked for
C5_Witness ==
    /\ handler = "determined"
    /\ Cardinality(KeptStarts(derive_response)) > agent_number
    /\ Cardinality(PieceStarts(derive_response)) >
           Cardinality(KeptStarts(derive_response))
    /\ \E i \in 1..Len(derive_response) : derive_response[i] = " "
    /\ companies # <<>>

\* C1: in every round that run_agents completes, one message per perspective
\* passed in is appended: the i-th appended message has the i-th perspective
\* as role and that perspective's final text as content.
C1_OneMessagePerPerspectiveInOrder ==
    [][(handler = "gathering" /\ handler' = "idle") =>
          chat_history' = chat_history \o
              [i \in DOMAIN tasks |->
                  [role |-> tasks[i].company, content |-> tasks[i].result]]]_vars

\* the result of the tool that task i called, as its note must hold it
OwnNotes(i) ==
    LET obj == tasks[i].tool_data.obj IN
    CASE tasks[i].tool = "read" ->
            {FileNote(obj["filename"], read_data) :
                read_data \in {ReadFailed, ReadMissing(obj["filename"]),
                               ReadUnsupported(obj["filename"])}}
      [] tasks[i].tool = "research" ->
            {ResearchNote(obj["query"], search_results) :
                search_results \in ResearchOutcomes}
      [] tasks[i].tool = "scrape_webpage" ->
            {WebpageNote(obj["url"], scrape_results) :
                scrape_results \in ScrapeOutcomes(obj["url"])}
      [] OTHER -> {}

\* C2: throughout a round the snapshot is the rendering of the transcript as
\* it was before the fan-out, and the conversation every chain.run of a
\* perspective is given is that snapshot, followed by the result of the
\* perspective's own tool call once it has one, and by nothing else.
C2_SnapshotPlusOwnToolResult ==
    handler = "gathering" =>
        /\ conversation_text = ConversationText(chat_history)
        /\ chat_history[Len(chat_history)] =
               [role |-> UserRole, content |-> user_input]
        /\ \A i \in DOMAIN tasks :
              IF tasks[i].model_calls = 1
              THEN tasks[i].conversation = conversation_text
              ELSE /\ tasks[i].note \in OwnNotes(i)
                   /\ tasks[i].conversation = conversation_text \o tasks[i].note

\* a later round, its snapshot holding answers of an earlier one, in which
\* two perspectives hold tool results at the same time
C2_Witness ==
    /\ handler = "gathering"
    /\ \E k \in 1..Len(chat_history) : chat_history[k].role # UserRole
    /\ \E i, j \in DOMAIN tasks :
          /\ i # j
          /\ tasks[i].pc = "informed" /\ tasks[i].note # <<>>
          /\ tasks[j].pc \in {"informed", "returned"} /\ tasks[j].note # <<>>

\* C3: once a generation of the round has raised, no message is appended and
\* the round does not complete; the transcript grows during a round only when
\* every generation has returned.
C3_FailedRoundAppendsNothing ==
    [][handler = "gathering" =>
          /\ (\E i \in DOMAIN tasks : tasks[i].pc = "raised") =>
                 (chat_history' = chat_history /\ handler' # "idle")
          /\ chat_history' # chat_history =>
                 \A i \in DOMAIN tasks : tasks[i].pc = "returned"]_vars

\* a round that failed after one of its perspectives had raised: the user's
\* message is the last of the transcript
C3_Witness ==
    /\ handler = "round_failed"
    /\ Len(selected_agents) > 1
    /\ chat_history[Len(chat_history)].role = UserRole

\* C6: a generation makes at most 5 chain.run calls and, every call
\* returning or raising, it ends: its task returns or raises.
C6_EndsWithinFiveModelCalls ==
    /\ [](\A i \in DOMAIN tasks : tasks[i].model_calls <= 5)
    /\ <>(tasks # <<>> /\ \A i \in DOMAIN tasks : tasks[i].pc \in Finished)

\* a generation that ended with its second chain.run call although the model
\* asked for a tool both times
C6_Witness ==
    \E i \in DOMAIN tasks :
        /\ tasks[i].pc = "returned"
        /\ tasks[i].model_calls = 2
        /\ tasks[i].tool = "scrape_webpage"
        /\ json_match(tasks[i].result)

\* the generation of task i ended on an informed response that asks for a tool
StillRequesting(i) ==
    /\ tasks[i].pc = "returned"
    /\ tasks[i].answers = 2
    /\ Classify(tasks[i].informed_response) \in ToolNames

WellFormedCall(i) ==
    /\ tasks[i].answers >= 1
    /\ Classify(tasks[i].response) \in ToolNames

\* the tool was called, its result added to the task's own conversation, and
\* chain.run called again with it
ToolResultFedBack(i) ==
    /\ tasks[i].tool_calls = 1
    /\ tasks[i].model_calls = 2
    /\ tasks[i].note \in OwnNotes(i)
    /\ tasks[i].conversation = conversation_text \o tasks[i].note

C9_PlainResponseReturnedTrimmed ==
    \A i \in DOMAIN tasks :
        (tasks[i].answers >= 1 /\ ~json_match(tasks[i].response)) =>
            /\ tasks[i].pc = "returned"
            /\ tasks[i].result = Trimmed(tasks[i].response)
            /\ tasks[i].tool_calls = 0
            /\ tasks[i].model_calls = 1

\* a response with a fence that is no block and with whitespace to remove
C9_Witness ==
    \E i \in DOMAIN tasks :
        /\ tasks[i].pc = "returned"
        /\ ~json_match(tasks[i].response)
        /\ \E k \in 1..Len(tasks[i].response) : tasks[i].response[k] = "~~~json"
        /\ tasks[i].result # tasks[i].response

\* the fields handle_tool_request reads for a tool
RequiredFields(tool) ==
    CASE tool = <<"read">> -> {"filename"}
      [] tool = <<"write">> -> {"filename", "content"}
      [] tool = <<"research">> -> {"query"}
      [] tool = <<"scrape_webpage">> -> {"url"}
      [] OTHER -> {}

\* the block of the response is an object that names one of the four tools
\* and lacks a field the tool requires
LacksRequiredField(response) ==
    /\ json_match(response)
    /\ LET tool_data == JsonLoads(MatchGroup(response)) IN
       /\ tool_data.kind = "object"
       /\ "tool" \in DOMAIN tool_data.obj
       /\ ~(RequiredFields(tool_data.obj["tool"]) \subseteq DOMAIN tool_data.obj)

\* C10: a block that names a tool and lacks a field the tool requires ends
\* the generation with the parse diagnostic followed by the original response:
\* no tool is called, nothing is raised, and the block is not passed over as
\* if absent.
C10_MissingFieldDiagnosed ==
    \A i \in DOMAIN tasks :
        (tasks[i].answers >= 1 /\ LacksRequiredField(tasks[i].response)) =>
            /\ tasks[i].pc = "returned"
            /\ Len(tasks[i].result) = Len(tasks[i].response) + 2
            /\ tasks[i].result[1] = "Error parsing tool invocation:"
            /\ SubSeq(tasks[i].result, 3, Len(tasks[i].result)) = tasks[i].response
            /\ tasks[i].result # Trimmed(tasks[i].response)
            /\ tasks[i].tool_calls = 0
            /\ tasks[i].model_calls = 1

\* a write call without content, in a session whose file exists
C10_Witness ==
    \E i \in DOMAIN tasks :
        /\ tasks[i].pc = "returned"
        /\ LacksRequiredField(tasks[i].response)
        /\ tasks[i].tool_data.obj["tool"] = <<"write">>
        /\ "filename" \in DOMAIN tasks[i].tool_data.obj
        /\ files["f.txt"].exists

\* the generation of task i ended with the parse diagnostic followed by the
\* original response
Diagnosed(i) ==
    /\ tasks[i].pc = "returned"
    /\ Len(tasks[i].result) = Len(tasks[i].response) + 2
    /\ tasks[i].result[1] = "Error parsing tool invocation:"
    /\ SubSeq(tasks[i].result, 3, Len(tasks[i].result)) = tasks[i].response

\* the block of the response is an object whose tool is none of the four
UnknownTool(response) ==
    /\ json_match(response)
    /\ LET tool_data == JsonLoads(MatchGroup(response)) IN
       /\ tool_data.kind = "object"
       /\ "tool" \in DOMAIN tool_data.obj
       /\ tool_data.obj["tool"] \notin
              {<<"read">>, <<"write">>, <<"research">>, <<"scrape_webpage">>}

\* C11: a block whose tool is not one of read, write, research and
\* scrape_webpage ends the generation with the parse diagnostic, not with the
\* plain response text.
C11_UnknownToolDiagnosed ==
    \A i \in DOMAIN tasks :
        (tasks[i].answers >= 1 /\ UnknownTool(tasks[i].response)) =>
            /\ Diagnosed(i)
            /\ tasks[i].result # Trimmed(tasks[i].response)

\* the response holds a block whose content is no JSON object
NoObjectBlock(response) ==
    /\ json_match(response)
    /\ JsonLoads(MatchGroup(response)).kind # "object"

\* C12: a block whose content is invalid JSON, or valid JSON that is no
\* object, ends the generation with the parse diagnostic; no exception leaves
\* generate_response.
C12_UnparsedBlockDiagnosed ==
    \A i \in DOMAIN tasks :
        (tasks[i].answers >= 1 /\ NoObjectBlock(tasks[i].response)) =>
            /\ tasks[i].pc # "raised"
            /\ Diagnosed(i)

\* the markers that the tools' failure payloads begin with
FailureMarkers ==
    {"Error: Temporary file '", "Error: Unsupported file type '",
     "Error reading from file: ", "Error writing to file: ",
     "Error fetching search results: "}

\* the tool of task i has returned a failure payload: a text that begins with
\* a failure marker, or a dict with an error
ReportsFailure(i) ==
    LET r == tasks[i].tool_result IN
    \/ r.kind = "str" /\ r.value # <<>> /\ r.value[1] \in FailureMarkers
    \/ r.kind = "dict" /\ "error" \in DOMAIN r.value

\* the failure that the tool of task i reported, as text
FailureText(i) ==
    LET r == tasks[i].tool_result IN
    IF r.kind = "dict" THEN r.value["error"] ELSE r.value

\* the text t occurs in the text s
Contains(s, t) ==
    \E k \in 0..(Len(s) - Len(t)) : SubSeq(s, k + 1, k + Len(t)) = t

\* C13: when the tool of a generation reports failure, the generation is not
\* ended by it: the model is called again, with a conversation that holds the
\* tool's failure payload, and only that call may raise.
C13_ToolFailureFedBack ==
    \A i \in DOMAIN tasks :
        ReportsFailure(i) =>
            /\ tasks[i].model_calls = 2
            /\ Contains(tasks[i].conversation, FailureText(i))
            /\ tasks[i].pc = "raised" => tasks[i].answers < tasks[i].model_calls

\* task j has returned from a write_tool call that reported success for the file
WroteFile(j, filename) ==
    /\ tasks[j].pc = "returned"
    /\ tasks[j].tool = "write"
    /\ tasks[j].tool_data.obj["filename"] = filename
    /\ tasks[j].result[1] = "Successfully wrote to '"

\* the content as a read of the file is to give it back: for a csv file its
\* rows of cells, the cells of a row separated by a comma and a space
ReadBack(filename, content) ==
    IF filename = <<"f.csv">> THEN Join(Split(content, ","), <<",", " ">>)
    ELSE content

\* C14: a read_tool call that returns after a write_tool call has written the
\* file returns the content written, as the format gives it back, and no
\* error payload.
C14_WrittenFileReadsBack ==
    [][\A i, j \in DOMAIN tasks :
          (/\ i # j
           /\ i \in DOMAIN tasks'
           /\ tasks[i].tool_result.kind = "none"
           /\ tasks'[i].tool_result.kind = "str"
           /\ tasks'[i].tool = "read"
           /\ WroteFile(j, tasks'[i].tool_data.obj["filename"]))
          => tasks'[i].tool_result.value =
                 ReadBack(tasks[j].tool_data.obj["filename"],
                          tasks[j].tool_data.obj["content"])]_vars

\* what one write_tool call of the content leaves in a file that did not exist
Image(filename, content) ==
    IF WriteAtOnce(filename)
    THEN WrittenAtOnce(NoFiles, filename, content)[FileOf(filename)].data
    ELSE content

\* C15: when two perspectives of a round have written the same file, the file
\* holds both contents, one appended to the other; neither write has erased
\* the other's content.
C15_BothWritesKept ==
    \A i, j \in DOMAIN tasks :
        LET filename == tasks[i].tool_data.obj["filename"]
            first == Image(filename, tasks[i].tool_data.obj["content"])
            second == Image(filename, tasks[j].tool_data.obj["content"])
        IN  (i # j /\ tasks[i].tool = "write" /\ WroteFile(i, filename)
                   /\ WroteFile(j, filename)) =>
                files[FileOf(filename)].data \in {first \o second, second \o first}

\* C16: a research call whose search has not answered within the timeout of
\* 10 s does not go on waiting: it has returned a failure payload that carries
\* a timeout marker.
C16_ResearchTimesOut ==
    \A i \in DOMAIN tasks :
        (tasks[i].tool = "research" /\ tasks[i].waited >= 1) =>
            /\ tasks[i].pc # "research"
            /\ tasks[i].tool_result.kind = "str"
            /\ tasks[i].tool_result.value[1] = "Error fetching search results: "
            /\ \E k \in 1..Len(tasks[i].tool_result.value) :
                  tasks[i].tool_result.value[k] = "timeout"

\* C17: determine_companies is called only when the stored perspective set
\* is empty, and a perspective set that is not empty is never changed: not by
\* a later message, a round or the settings dialog.
C17_DerivedOnlyWhenEmpty ==
    [][/\ (handler # "deriving" /\ handler' = "deriving") => companies = <<>>
       /\ companies # <<>> => companies' = companies
       /\ companies' # companies => handler = "deriving"]_vars

\* the round of a second message, after the settings dialog has changed the
\* count and the selection: the perspectives are those derived for the first
C17_Witness ==
    /\ handler = "gathering"
    /\ UserCount(chat_history) = 2
    /\ Len(companies) = 2
    /\ agent_number # 4
    /\ selected_agents # companies
    /\ companies = determine_companies(derive_response, 4)

\* the text s begins the text t
IsPrefix(s, t) == Len(s) <= Len(t) /\ SubSeq(t, 1, Len(s)) = s

\* C18: every step of the session leaves the transcript as it was or appends
\* to it: the transcript of every earlier state is a prefix of the transcript
\* of every later one.
C18_TranscriptAppendOnly == [][IsPrefix(chat_history, chat_history')]_vars

\* a second round that failed, after a round that appended answers and a
\* change of the settings
C18_Witness ==
    /\ handler = "round_failed"
    /\ Len(chat_history) >= 3
    /\ chat_history[2].role # UserRole
    /\ agent_number # 4

\* C19: from the snapshot to the end of the round the transcript is not
\* written: a step of a round changes it only when every generation has
\* returned, and that step ends the round.
C19_TranscriptUntouchedDuringRound ==
    [][handler = "gathering" =>
          \/ chat_history' = chat_history
          \/ /\ \A i \in DOMAIN tasks : tasks[i].pc = "returned"
             /\ handler' = "idle"]_vars

\* one perspective has returned with the result of its write while another
\* holds the result of its tool and awaits the model
C19_Witness ==
    /\ handler = "gathering"
    /\ \E i, j \in DOMAIN tasks :
          /\ tasks[i].pc = "returned" /\ tasks[i].tool = "write"
          /\ tasks[j].pc = "informed" /\ tasks[j].tool = "read"
    /\ chat_history[Len(chat_history)].role = UserRole

\* the characters of a text, in one string
RECURSIVE Flat(_)
Flat(s) == IF s = <<>> THEN "" ELSE Head(s) \o Flat(Tail(s))

\* the transcript as run_agents renders it, in one string: every message as
\* its role in capitals, a colon, a space and its content, the messages
\* separated by newlines
RECURSIVE Rendered(_)
Rendered(history) ==
    IF history = <<>> THEN ""
    ELSE LET line == Flat(UpperText(history[1].role)) \o ": "
                         \o Flat(history[1].content)
         IN  IF Len(history) = 1 THEN line
             ELSE line \o "\n" \o Rendered(Tail(history))

\* C20: the snapshot is the same text for every perspective, is at most 5000
\* characters long and is a suffix of the rendered transcript; a rendered
\* transcript of at most 5000 characters is the snapshot, unchanged.
C20_SnapshotIsBoundedSuffix ==
    handler = "gathering" =>
        LET full == Rendered(chat_history)
            snapshot == Flat(conversation_text)
        IN  /\ \A i \in DOMAIN tasks : tasks[i].conversation = conversation_text
            /\ Len(snapshot) <= 5000
            /\ Len(snapshot) <= Len(full)
            /\ SubSeq(full, Len(full) - Len(snapshot) + 1, Len(full)) = snapshot
            /\ Len(full) <= 5000 => snapshot = full

\* a transcript of four messages that renders to more than 5000 characters:
\* the snapshot begins inside the first answer and keeps the messages after it
C20_Witness ==
    /\ handler = "gathering"
    /\ Len(tasks) = 2
    /\ Len(chat_history) = 4
    /\ Len(Rendered(chat_history)) > 5000
    /\ Len(Flat(conversation_text)) = 5000
    /\ Len(conversation_text[1]) < Len(chat_history[2].content[1])
    /\ conversation_text[2] = "\n"
    /\ conversation_text[3] = "B"

\* task i is inside a tool: the web search, or a file read or write that
\* awaits aiofiles
ExecutingTool(i) ==
    tasks[i].pc \in {"research", "read_open", "write_open", "write_data"}

\* the generation of task j goes on: the operation it awaits returns and its
\* coroutine is resumed
Continues(j) ==
    \/ \E response \in ToolResponses : ModelResponds(j, response)
    \/ \E search_results \in ResearchOutcomes : SearchReturns(j, search_results)
    \/ ReadResumes(j)
    \/ WriteOpens(j, TRUE)
    \/ WriteResumes(j)
    \/ \E response \in RoundInformedResponses : InformedResponds(j, response)

\* C21: while a perspective is inside a tool (search, file read or write), a
\* sibling of the round that has not finished can go on: tool calls do not
\* serialize the round.
C21_SiblingContinuesDuringTool ==
    \A i, j \in DOMAIN tasks :
        (i # j /\ ExecutingTool(i) /\ tasks[j].pc \notin Finished) =>
            ENABLED Continues(j)

\* the generation of task i returned after the model answered a tool result
AnsweredToolResult(i) ==
    /\ tasks[i].pc = "returned"
    /\ tasks[i].answers = 2

\* C22: one generation calls at most one tool and the model at most twice,
\* and the model's answer to the tool result is the final text, whatever it
\* holds.
C22_OneToolTwoModelCalls ==
    \A i \in DOMAIN tasks :
        /\ tasks[i].tool_calls <= 1
        /\ tasks[i].model_calls <= 2
        /\ AnsweredToolResult(i) => tasks[i].result = tasks[i].informed_response

\* the characters of the text s end with the characters of the text t
EndsWithText(s, t) ==
    LET a == Flat(s)
        b == Flat(t)
    IN  Len(a) >= Len(b) /\ SubSeq(a, Len(a) - Len(b) + 1, Len(a)) = b

\* the current user message as run_agents renders it
UserLine == UpperText(UserRole) \o <<":", " ">> \o user_input

LastMessageIsUsers ==
    /\ chat_history # <<>>
    /\ chat_history[Len(chat_history)] = [role |-> UserRole, content |-> user_input]

\* C23: the user's message is in the transcript, as its last message, while
\* the perspectives are derived and while the round runs; the snapshot of the
\* round, which every perspective's conversation begins with, ends with that
\* message when its rendering fits the window; after a failed derivation or
\* a failed round the message is still the last of the transcript.
C23_UserMessageAppendedFirst ==
    /\ handler \in {"deriving", "gathering", "derive_failed", "round_failed"} =>
           LastMessageIsUsers
    /\ (handler = "gathering" /\ TextLen(UserLine) <= max_length) =>
           /\ EndsWithText(conversation_text, UserLine)
           /\ \A i \in DOMAIN tasks :
                 IsPrefix(conversation_text, tasks[i].conversation)

\* the round of a second message has failed: the transcript holds the
\* answers of the first round and ends with the second message, which the
\* snapshot of the failed round ended with
C23_Witness ==
    /\ handler = "round_failed"
    /\ UserCount(chat_history) = 2
    /\ Len(chat_history) >= 3
    /\ LastMessageIsUsers
    /\ EndsWithText(conversation_text, UserLine)
    /\ Len(conversation_text) > Len(UserLine)

\* the labels of a list
Labels(list) == {list[i] : i \in 1..Len(list)}

\* the generations of the round are those of the selected agents, in order
GeneratesForSelected ==
    /\ Len(tasks) = Len(selected_agents)
    /\ \A i \in DOMAIN tasks : tasks[i].company = selected_agents[i]

\* the messages that a step has appended to the transcript
Appended == SubSeq(chat_history', Len(chat_history) + 1, Len(chat_history'))

\* C24: in every state of a session the selected agents are a sub-list of
\* the stored perspectives, and the generations of a running round are those
\* of the selected agents; the step that stores derived perspectives selects
\* them all; and the answers a round appends are answers of selected agents.
C24_SelectedAgentsAreSubList ==
    /\ [](/\ selected_agents \in SubLists(companies)
          /\ handler = "gathering" => GeneratesForSelected)
    /\ [][/\ (handler = "deriving" /\ handler' # "deriving") =>
                 selected_agents' = companies'
          /\ (handler = "gathering" /\ chat_history' # chat_history) =>
                 \A k \in 1..Len(Appended) :
                     Appended[k].role \in Labels(selected_agents)]_vars

\* the round of a second message has ended with the one answer of the one
\* agent, of two stored, that the settings dialog had left selected
C24_Witness ==
    /\ handler = "idle"
    /\ UserCount(chat_history) = 2
    /\ Len(companies) = 2
    /\ companies[1] # companies[2]
    /\ selected_agents = <<companies[2]>>
    /\ chat_history[Len(chat_history)].role = companies[2]
    /\ chat_history[Len(chat_history) - 1].role = UserRole

====
